---- MODULE Spec2Model ----
(***************************************************************************)
(* A model of src/finder.cpp (Avian's resource finder): the JarIndex (ZIP  *)
(* central-directory parser and hash index), the Element variants, the     *)
(* lazy iterators and the Finder.                                          *)
(*                                                                         *)
(* C strings and archive bytes are sequences of byte values (0..255); a    *)
(* pointer into an archive region is its offset from region->start().      *)
(***************************************************************************)
EXTENDS Integers, Sequences, FiniteSets, TLC

VARIABLES
  aid,      \* JarIndex::open: which archive the region holds
  abytes,   \* JarIndex::open: the region's bytes
  outside,  \* what a read outside [start, start+length) meets: [fill, traps]
  opc,      \* JarIndex::open: "scan" | "walk" | "returned" | "fault" | "capped"
  p,        \* JarIndex::open: the local p, as an offset from start
  index,    \* JarIndex::open: the local index (the JarIndex object it points to)
  oob,      \* history: open has read a byte outside the region
  res,      \* the outcome of the last JarIndex::find / JarIndex::exists call
  fpath,    \* the path string makeFinder is given
  sys,      \* System: what cannot be read, what the boot library comes to
  heap,     \* the Elements parsePath allocated, in allocation order
  path_,    \* MyFinder::path_
  fstat,    \* the finder: "new" | "made" | "disposed" | "aborted" | "crashed"
  fres,     \* the outcome of the last Finder call
  flog,     \* history: the element iterators obtained and disposed, and what
            \* Finder::dispose read, disposed and freed, in order
  mit,      \* the MyIterator (or the Element::Iterator) in use: [e, it]
  dirs,     \* the DirectoryElement::Iterator chain and the directory handles
  yielded,  \* history: the names next() has returned
  ipc       \* the iterator: "none" | "iter" | "end" | "disposed" | "crashed"

ivars == <<aid, abytes, outside, opc, p, index, oob, res>>

fvars == <<fpath, sys, heap, path_, fstat, fres, flog, mit, dirs, yielded, ipc>>

vars == <<ivars, fvars>>

-----------------------------------------------------------------------------
(* Bounds of the model *)

\* entries of the largest archive (more than 64: two growths of a 32-slot index)
MaxEntries == 66
\* times over its directory's records that an index may fill before a run of
\* open is cut off
MaxRepeat == 2

\* tokens of the longest search path
MaxTokens == 3

\* System::load, System::map, the library's function and JarIndex::open are
\* counted per element up to MaxCalls
MaxCalls == 2

-----------------------------------------------------------------------------
(* Program constants *)

LocalHeaderSize == 30
HeaderSize == 46
Stored == 0
Deflated == 8
InitialCapacity == 32
EocdBack == 22
\* a null pointer
NULL == 0

\* F of v, with v computed once
With(v, F(_)) == F(v)

EocdSignature == <<80, 75, 5, 6>>     \* 0x06054b50, little-endian
CentralSignature == <<80, 75, 1, 2>>  \* 0x02014b50, little-endian

-----------------------------------------------------------------------------
(* Memory: a region's bytes, and what lies outside them *)

\* a read of n bytes at offset o leaves the region
Touches(m, o, n) == n > 0 /\ (o < 0 \/ o + n > Len(m.bytes))

Mem(m, o) == IF o >= 0 /\ o < Len(m.bytes) THEN m.bytes[o + 1] ELSE m.fill

get2(m, o) == Mem(m, o + 1) * 256 + Mem(m, o)

\* the inputs keep the top byte below 128, so the value fits a signed 32-bit integer
get4(m, o) ==
  Mem(m, o + 3) * 16777216 + Mem(m, o + 2) * 65536 + Mem(m, o + 1) * 256 + Mem(m, o)

\* signature(p) == 0x06054b50, compared byte by byte
IsEocd(m, o) == <<Mem(m, o), Mem(m, o + 1), Mem(m, o + 2), Mem(m, o + 3)>> = EocdSignature

\* signature(p) == 0x02014b50
IsCentral(m, o) ==
  <<Mem(m, o), Mem(m, o + 1), Mem(m, o + 2), Mem(m, o + 3)>> = CentralSignature

compressionMethod(m, c) == get2(m, c + 10)
compressedSize(m, c) == get4(m, c + 20)
uncompressedSize(m, c) == get4(m, c + 24)
fileNameLength(m, c) == get2(m, c + 28)
extraFieldLength(m, c) == get2(m, c + 30)
commentFieldLength(m, c) == get2(m, c + 32)
localHeaderOffset(m, c) == get4(m, c + 42)
localFileNameLength(m, l) == get2(m, l + 26)
localExtraFieldLength(m, l) == get2(m, l + 28)
centralDirectoryOffset(m, e) == get4(m, e + 16)
fileName(c) == c + 46

fileDataBug(m, l) == l + LocalHeaderSize + fileNameLength(m, l) + extraFieldLength(m, l)
fileData(m, l) ==
  l + LocalHeaderSize + localFileNameLength(m, l) + localExtraFieldLength(m, l)

endOfEntry(m, c) ==
  c + HeaderSize + fileNameLength(m, c) + extraFieldLength(m, c)
    + commentFieldLength(m, c)

\* the n bytes at offset o
Bytes(m, o, n) == [i \in 1..n |-> Mem(m, o + i - 1)]

-----------------------------------------------------------------------------
(* hash: a uint32_t, kept as <<high 16 bits, low 16 bits>> *)

RECURSIVE BitAnd(_, _)
BitAnd(a, b) ==
  IF a = 0 \/ b = 0 THEN 0
  ELSE (a % 2) * (b % 2) + 2 * BitAnd(a \div 2, b \div 2)

\* h * 31 + c, modulo 2^32
HashStep(h, c) ==
  LET lo == h[2] * 31 + c
  IN  <<(h[1] * 31 + lo \div 65536) % 65536, lo % 65536>>

RECURSIVE HashFrom(_, _, _)
HashFrom(h, s, i) == IF i > Len(s) THEN h ELSE HashFrom(HashStep(h, s[i]), s, i + 1)

hash(s) == HashFrom(<<0, 0>>, s, 1)

\* hash & (capacity - 1), for a capacity of at most 2^16
BucketOf(h, capacity) == BitAnd(h[2], capacity - 1)

-----------------------------------------------------------------------------
(* JarIndex *)

make(capacity) ==
  [capacity |-> capacity, position |-> 0, nodes |-> <<>>,
   table |-> [i \in 0..(capacity - 1) |-> NULL]]

RECURSIVE add(_, _, _), ReAdd(_, _, _), ReAddBackwards(_, _, _)

\* ... re-inserting nodes[capacity-1..0], the last node first
ReAddBackwards(new, old, i) ==
  IF i < old.capacity
  THEN LET nx == add(new, old.nodes[old.capacity - i].hash,
                     old.nodes[old.capacity - i].entry)
       IN  IF nx.position > i THEN ReAddBackwards(nx, old, i + 1) ELSE nx
  ELSE new

\* the for loop of add: re-insert nodes[0..capacity-1] of the full index
ReAdd(new, old, i) ==
  IF i < old.capacity
  THEN LET nx == add(new, old.nodes[i + 1].hash, old.nodes[i + 1].entry)
       \* (the test is always true: it has nx evaluated before the next round)
       IN  IF nx.position > i THEN ReAdd(nx, old, i + 1) ELSE nx
  ELSE new

\* a growth that copies the nodes but keeps each in the bucket of the old capacity
addStale(ix, h, e) ==
  IF ix.position < ix.capacity
  THEN LET i == BucketOf(h, ix.capacity)
       IN  [ix EXCEPT !.nodes = Append(@, [hash |-> h, entry |-> e, next |-> ix.table[i]]),
                      !.table[i] = ix.position + 1,
                      !.position = @ + 1]
  ELSE LET i == BucketOf(h, ix.capacity)
       IN  [capacity |-> ix.capacity * 2,
            position |-> ix.position + 1,
            nodes |-> Append(ix.nodes, [hash |-> h, entry |-> e, next |-> ix.table[i]]),
            table |-> [j \in 0..(ix.capacity * 2 - 1) |->
                         IF j = i THEN ix.position + 1
                         ELSE IF j < ix.capacity THEN ix.table[j] ELSE NULL]]

\* nodes are named by their place in the nodes array, 1..position; NULL is no node
add(ix, h, e) ==
  IF ix.position < ix.capacity
  THEN LET i == BucketOf(h, ix.capacity)
       IN  [ix EXCEPT !.nodes = Append(@, [hash |-> h, entry |-> e, next |-> ix.table[i]]),
                      !.table[i] = ix.position + 1,
                      !.position = @ + 1]
  ELSE add(ReAdd(make(ix.capacity * 2), ix, 0), h, e)

equal(a, b) == Len(a) = Len(b) /\ a = b

\* the name a node's central header stores
NodeName(m, ix, n) ==
  Bytes(m, fileName(ix.nodes[n].entry), fileNameLength(m, ix.nodes[n].entry))

RECURSIVE ChainFind(_, _, _, _)
ChainFind(m, ix, n, name) ==
  IF n = NULL THEN NULL
  ELSE IF equal(name, NodeName(m, ix, n)) THEN n
  ELSE ChainFind(m, ix, ix.nodes[n].next, name)

findNode(m, ix, name) == ChainFind(m, ix, ix.table[BucketOf(hash(name), ix.capacity)], name)

exists(m, ix, name) == findNode(m, ix, name) # NULL

-----------------------------------------------------------------------------
(* The codec: raw inflate, by the return codes of zlib's inflate(Z_FINISH). *)
(* A stream is a run of <<1, b>> (the literal b) closed by 0 (end of       *)
(* stream); any other tag is invalid data.                                 *)

RECURSIVE DeflateFrom(_, _)
DeflateFrom(content, i) ==
  IF i > Len(content) THEN <<0>> ELSE <<1, content[i]>> \o DeflateFrom(content, i + 1)

Deflate(content) == DeflateFrom(content, 1)

RECURSIVE InflateFrom(_, _, _, _)
InflateFrom(input, i, out, availOut) ==
  IF i > Len(input) THEN [r |-> "Z_BUF_ERROR", out |-> out, consumed |-> i - 1]
  ELSE IF input[i] = 0 THEN [r |-> "Z_STREAM_END", out |-> out, consumed |-> i]
  ELSE IF input[i] # 1 THEN [r |-> "Z_DATA_ERROR", out |-> out, consumed |-> i - 1]
  ELSE IF i + 1 > Len(input) \/ Len(out) = availOut
       THEN [r |-> "Z_BUF_ERROR", out |-> out, consumed |-> i - 1]
  ELSE InflateFrom(input, i + 2, Append(out, input[i + 1]), availOut)

\* inflate(&zStream, Z_FINISH) with avail_in = Len(input), avail_out = availOut
Inflate(input, availOut) == InflateFrom(input, 1, <<>>, availOut)

-----------------------------------------------------------------------------
(* JarIndex::find *)

NoRegion == [kind |-> "none", start |-> 0, length |-> 0, data |-> <<>>]
Abort == [kind |-> "abort", start |-> 0, length |-> 0, data |-> <<>>]

\* the inflate call of find on the entry with central header c
InflateEntry(m, c) ==
  Inflate(Bytes(m, fileData(m, localHeaderOffset(m, c)), compressedSize(m, c)),
          uncompressedSize(m, c))

\* case Deflated: g is what the bytes of the buffer that inflate never wrote hold
findDeflated(m, c, g) ==
  LET z == InflateEntry(m, c)
      n == uncompressedSize(m, c)
  IN  IF z.r = "Z_STREAM_END"
      THEN [kind |-> "data", start |-> 0, length |-> n,
            data |-> [i \in 1..n |-> IF i <= Len(z.out) THEN z.out[i] ELSE g]]
      ELSE Abort

\* case Stored: a PointerRegion into the archive (start is the offset from its start)
findStored(m, c) ==
  [kind |-> "pointer", start |-> fileData(m, localHeaderOffset(m, c)),
   length |-> compressedSize(m, c), data |-> <<>>]

find(m, ix, name, g) ==
  LET n == findNode(m, ix, name)
  IN  IF n = NULL THEN NoRegion
      ELSE LET c == ix.nodes[n].entry
           IN  CASE compressionMethod(m, c) = Stored -> findStored(m, c)
                 [] compressionMethod(m, c) = Deflated -> findDeflated(m, c, g)
                 [] OTHER -> Abort

\* the bytes a region holds
RegionBytes(m, r) == IF r.kind = "pointer" THEN Bytes(m, r.start, r.length) ELSE r.data

-----------------------------------------------------------------------------
(* Archive regions given to JarIndex::open.  An entry is laid out as the    *)
(* accessors above read it.                                                *)

Put2(v) == <<v % 256, (v \div 256) % 256>>
Put4(v) == <<v % 256, (v \div 256) % 256, (v \div 65536) % 256, (v \div 16777216) % 256>>
Zeros(n) == [i \in 1..n |-> 0]

Entry(name, method, data, usize, content) ==
  [name |-> name, method |-> method, data |-> data, csize |-> Len(data),
   usize |-> usize, content |-> content, lname |-> name, lextra |-> <<>>,
   cextra |-> <<>>, commentLen |-> 0]

StoredEntry(name, content) == Entry(name, Stored, content, Len(content), content)
DeflatedEntry(name, content) ==
  Entry(name, Deflated, Deflate(content), Len(content), content)

LocalRecord(e) ==
  <<80, 75, 3, 4>> \o Zeros(4) \o Put2(e.method) \o Zeros(8) \o Put4(e.csize)
    \o Put4(e.usize) \o Put2(Len(e.lname)) \o Put2(Len(e.lextra))
    \o e.lname \o e.lextra \o e.data

CentralRecord(e, lho) ==
  CentralSignature \o Zeros(6) \o Put2(e.method) \o Zeros(8) \o Put4(e.csize)
    \o Put4(e.usize) \o Put2(Len(e.name)) \o Put2(Len(e.cextra)) \o Put2(e.commentLen)
    \o Zeros(8) \o Put4(lho) \o e.name \o e.cextra

EocdRecord(n, cdSize, cdOffset, comment) ==
  EocdSignature \o Zeros(4) \o Put2(n) \o Put2(n) \o Put4(cdSize) \o Put4(cdOffset)
    \o Put2(Len(comment)) \o comment

RECURSIVE Assemble(_, _, _, _)
Assemble(ents, i, locals, centrals) ==
  IF i > Len(ents) THEN [locals |-> locals, centrals |-> centrals]
  ELSE Assemble(ents, i + 1, locals \o LocalRecord(ents[i]),
                centrals \o CentralRecord(ents[i], Len(locals)))

\* cdShift moves the offset the end record declares; comment is the trailer
Zip(ents, cdShift, comment) ==
  LET a == Assemble(ents, 1, <<>>, <<>>)
  IN  a.locals \o a.centrals
        \o EocdRecord(Len(ents), Len(a.centrals), Len(a.locals) + cdShift, comment)

NameA == <<65>>                  \* "A"
NameB == <<66>>                  \* "B"
NamePX == <<112, 47, 88>>        \* "p/X"
NameQ == <<81>>                  \* "Q"
NameR == <<82>>                  \* "R"
NameS == <<83>>                  \* "S"
NameT == <<84>>                  \* "T"
NameU == <<85>>                  \* "U"
NameMissing == <<109>>           \* "m"

BigName0(i) == <<97 + (i % 8), 48 + (i \div 8)>>
\* records 3, 5 and 40 carry the same name
BigName(i) == IF i \in {5, 40} THEN BigName0(3) ELSE BigName0(i)

\* a well-formed archive: a Stored entry whose local header has an extra field
\* the central header lacks, and a Deflated one
SmallEntries ==
  << [StoredEntry(NameA, <<104, 105>>) EXCEPT !.lextra = <<9, 9, 9>>],
     DeflatedEntry(NamePX, <<7, 8, 9>>),
     [StoredEntry(NameB, <<1, 2, 3, 4>>) EXCEPT !.cextra = <<5, 5>>] >>

BigEntries == [i \in 1..MaxEntries |-> StoredEntry(BigName(i), <<i>>)]

\* Deflated entries that break the codec's contract, and an unsupported method
BadEntries ==
  << [DeflatedEntry(NameQ, <<7, 8>>) EXCEPT !.usize = 3],            \* output unfilled
     Entry(NameR, Deflated, Deflate(<<7, 8>>) \o <<1, 5>>, 2, <<7, 8>>), \* input left over
     [DeflatedEntry(NameS, <<7, 8>>) EXCEPT !.usize = 1],            \* output too small
     Entry(NameT, Deflated, <<1, 7, 3, 8, 0>>, 2, <<7, 8>>),         \* invalid data
     Entry(NameU, Deflated, <<1, 7, 1, 8>>, 2, <<7, 8>>),            \* stream cut short
     Entry(NameB, 9, <<7, 8>>, 2, <<7, 8>>),                         \* method 9
     DeflatedEntry(NameA, <<7, 8>>) >>

OneEntry == << StoredEntry(NameA, <<104, 105>>) >>

\* the directory each archive was built from
ArchiveEnts ==
  << SmallEntries, BigEntries, BadEntries, <<>>, <<>>, <<>>, <<>>, <<>>,
     OneEntry, OneEntry, OneEntry >>

ArchiveBytes(a) ==
  CASE a = 1 -> Zip(SmallEntries, 0, <<>>)
    [] a = 2 -> Zip(BigEntries, 0, <<>>)
    [] a = 3 -> Zip(BadEntries, 0, <<33, 33>>)
    \* nothing but an end record: p = end - 22 is start
    [] a = 4 -> Zip(<<>>, 0, <<>>)
    \* shorter than an end record
    [] a = 5 -> <<80, 75, 5>>
    \* no end-record signature anywhere
    [] a = 6 -> Zeros(30)
    \* the declared central-directory offset is the region's end
    [] a = 7 -> Zip(OneEntry, 47 + 22, <<>>)
    \* ... and beyond it
    [] a = 8 -> Zip(OneEntry, 47 + 22 + 3, <<>>)
    \* the last record's comment length carries the walk to the region's end
    [] a = 9 -> Zip(<< [OneEntry[1] EXCEPT !.commentLen = 22] >>, 0, <<>>)
    \* ... and past it
    [] a = 10 -> Zip(<< [OneEntry[1] EXCEPT !.commentLen = 25] >>, 0, <<>>)
    \* the declared central-directory offset is that of a central header
    \* beginning 34 bytes before the region's end, its name length 1
    [] a = 11 -> Zip(OneEntry, 47 + 22,
                     <<80, 75, 1, 2>> \o Zeros(24) \o <<1, 0>> \o Zeros(4))

NArchives == Len(ArchiveEnts)

Outsides == { [fill |-> 0, traps |-> FALSE], [fill |-> 6, traps |-> FALSE],
              [fill |-> 0, traps |-> TRUE] }
Garbage == {0, 170}

\* the names find and exists are asked for
LookupNames(a) ==
  { ArchiveEnts[a][i].name : i \in 1..Len(ArchiveEnts[a]) } \cup {NameMissing}

-----------------------------------------------------------------------------
(* JarIndex::open, one loop iteration a step *)

Region == [bytes |-> abytes, fill |-> outside.fill]

NoResult == [op |-> "none", name |-> <<>>, r |-> NoRegion, b |-> FALSE]

NoFRes == [op |-> "none", name |-> <<>>, r |-> NoRegion, content |-> <<>>,
           b |-> FALSE, by |-> NULL]
NoIt == [kind |-> "none", elem |-> NULL, position |-> 0]
NoMit == [e |-> NULL, it |-> NoIt]
NoDs == [frames |-> <<>>, handles |-> <<>>]
NoEnv == [locked |-> {}, builtin |-> "data"]

\* no finder made yet
FIdle ==
  /\ heap = <<>>
  /\ path_ = NULL
  /\ fstat = "new"
  /\ fres = NoFRes
  /\ flog = <<>>
  /\ mit = NoMit
  /\ dirs = NoDs
  /\ yielded = <<>>
  /\ ipc = "none"

\* no JarIndex::open under way
IIdle ==
  /\ aid = 0
  /\ abytes = <<>>
  /\ outside = [fill |-> 0, traps |-> FALSE]
  /\ opc = "idle"
  /\ p = 0
  /\ index = make(InitialCapacity)
  /\ oob = FALSE
  /\ res = NoResult

IInit ==
  /\ fpath = <<>>
  /\ sys = NoEnv
  /\ FIdle
  /\ aid \in 1..NArchives
  /\ outside \in Outsides
  /\ opc = "scan"
  /\ abytes = ArchiveBytes(aid)
  /\ p = Len(abytes) - EocdBack
  /\ index = make(InitialCapacity)
  /\ oob = FALSE
  /\ res = NoResult

\* open's locals
OpenLocals == [opc |-> opc, p |-> p, index |-> index, oob |-> oob]

\* one round of while (p > start), the end-record scan
ScanNext(m, traps, st) ==
  IF ~(st.p > 0)
  THEN [st EXCEPT !.opc = "returned"]
  ELSE LET hit == IsEocd(m, st.p)
           out == Touches(m, st.p, 4) \/ (hit /\ Touches(m, st.p + 16, 4))
       IN  IF out /\ traps
           THEN [st EXCEPT !.opc = "fault", !.oob = TRUE]
           ELSE IF hit
           THEN [st EXCEPT !.p = centralDirectoryOffset(m, st.p), !.opc = "walk",
                           !.oob = @ \/ out]
           ELSE [st EXCEPT !.p = @ - 1, !.oob = @ \/ out]

\* one round of while (p < end), the central-directory walk; a run that would
\* fill the index beyond limit nodes is cut off
WalkNext(m, traps, limit, st) ==
  IF ~(st.p < Len(m.bytes))
  THEN [st EXCEPT !.opc = "scan"]
  ELSE LET hit == IsCentral(m, st.p)
           nl == fileNameLength(m, st.p)
           out == Touches(m, st.p, 4)
                    \/ (hit /\ (Touches(m, st.p + 28, 6) \/ Touches(m, st.p + 46, nl)))
       IN  IF out /\ traps
           THEN [st EXCEPT !.opc = "fault", !.oob = TRUE]
           ELSE IF ~hit
           THEN [st EXCEPT !.opc = "returned", !.oob = @ \/ out]
           ELSE IF st.index.position >= limit
           THEN [st EXCEPT !.opc = "capped"]
           ELSE [st EXCEPT !.index = add(@, hash(Bytes(m, fileName(st.p), nl)), st.p),
                           !.p = endOfEntry(m, st.p),
                           !.oob = @ \/ out]

ScanStep ==
  /\ opc = "scan"
  /\ LET st == ScanNext(Region, outside.traps, OpenLocals)
     IN  opc' = st.opc /\ p' = st.p /\ index' = st.index /\ oob' = st.oob
  /\ UNCHANGED <<aid, abytes, outside, res, fvars>>

WalkStep ==
  /\ opc = "walk"
  /\ LET st == WalkNext(Region, outside.traps, MaxRepeat * Len(ArchiveEnts[aid]),
                        OpenLocals)
     IN  opc' = st.opc /\ p' = st.p /\ index' = st.index /\ oob' = st.oob
  /\ UNCHANGED <<aid, abytes, outside, res, fvars>>

\* JarIndex::find(name, region->start()) on the index open returned
Find ==
  /\ opc = "returned"
  /\ \E name \in LookupNames(aid), g \in Garbage :
       LET r == find(Region, index, name, g)
       IN  /\ res' = [op |-> "find", name |-> name, r |-> r, b |-> r.kind # "none"]
           /\ opc' = IF r.kind = "abort" THEN "aborted" ELSE opc
  /\ UNCHANGED <<aid, abytes, outside, p, index, oob, fvars>>

\* JarIndex::exists(name)
Exists ==
  /\ opc = "returned"
  /\ \E name \in LookupNames(aid) :
       res' = [op |-> "exists", name |-> name, r |-> NoRegion,
               b |-> exists(Region, index, name)]
  /\ UNCHANGED <<aid, abytes, outside, opc, p, index, oob, fvars>>

INext == ScanStep \/ WalkStep \/ Find \/ Exists

SpecIndex == IInit /\ [][INext]_vars

ONext == ScanStep \/ WalkStep

\* open alone, on the regions whose directory fits the initial capacity; once
\* called it runs on, each loop iteration following the last
OInit == IInit /\ Len(ArchiveEnts[aid]) <= InitialCapacity

SpecOpen == OInit /\ [][ONext]_vars /\ WF_vars(ONext)

-----------------------------------------------------------------------------
(* Claims about JarIndex, checked under SpecIndex *)

RECURSIVE ChainFrom(_, _, _)
ChainFrom(ix, n, fuel) ==
  IF n = NULL \/ fuel = 0 THEN <<>>
  ELSE <<n>> \o ChainFrom(ix, ix.nodes[n].next, fuel - 1)

\* the nodes on the chain of bucket b, from its head
Chain(ix, b) == ChainFrom(ix, ix.table[b], ix.position + 1)

\* the entries of the archive's directory that carry the name
EntriesNamed(a, name) ==
  { i \in 1..Len(ArchiveEnts[a]) : ArchiveEnts[a][i].name = name }

RECURSIVE LocalOffset(_, _)
\* where the local header of entry i was laid
LocalOffset(ents, i) ==
  IF i = 1 THEN 0 ELSE LocalOffset(ents, i - 1) + Len(LocalRecord(ents[i - 1]))

\* C4: after any number of insertions and growths the capacity is a power of
\* two, every inserted node lies on the chain of bucket hash & (capacity - 1),
\* once, and on no other chain, and looking up the name of any inserted node
\* finds a node with that name.
C4_IndexInvariant ==
  LET m == Region
      ix == index
      chains == [b \in 0..(ix.capacity - 1) |-> Chain(ix, b)]
  IN  /\ \E k \in 0..16 : ix.capacity = 2 ^ k
      /\ ix.position = Len(ix.nodes)
      /\ ix.position <= ix.capacity
      /\ \A b \in 0..(ix.capacity - 1) :
           \A j \in 1..Len(chains[b]) :
             /\ BucketOf(ix.nodes[chains[b][j]].hash, ix.capacity) = b
             /\ \A k \in 1..Len(chains[b]) : k # j => chains[b][k] # chains[b][j]
      /\ \A n \in 1..ix.position :
           LET nm == NodeName(m, ix, n)
               f == findNode(m, ix, nm)
               ch == chains[BucketOf(ix.nodes[n].hash, ix.capacity)]
           IN  /\ \E j \in 1..Len(ch) : ch[j] = n
               /\ f # NULL
               /\ NodeName(m, ix, f) = nm

\* an index that grew twice and has a chain of several nodes
C4_Witness ==
  /\ index.capacity = 4 * InitialCapacity
  /\ index.position > 2 * InitialCapacity
  /\ \E b \in 0..(index.capacity - 1) : Len(Chain(index, b)) >= 2

\* C5: find on a Deflated entry returns an owned region only when inflate
\* reported completion having consumed exactly the compressed-size input and
\* produced exactly the declared uncompressed size; otherwise it aborts.
C5_DeflatedExact ==
  (res.op = "find" /\ findNode(Region, index, res.name) # NULL
     /\ compressionMethod(Region, index.nodes[findNode(Region, index, res.name)].entry)
          = Deflated)
  => LET c == index.nodes[findNode(Region, index, res.name)].entry
         z == InflateEntry(Region, c)
         exact == /\ z.r = "Z_STREAM_END"
                  /\ z.consumed = compressedSize(Region, c)
                  /\ Len(z.out) = uncompressedSize(Region, c)
     IN  IF exact THEN res.r.kind = "data" ELSE res.r.kind = "abort"

\* C6: find on a Stored entry returns a region that points into the archive,
\* at local-header offset + 30 + the local header's name length + the local
\* header's extra-field length, and its bytes are the entry's content.
C6_StoredAliases ==
  (res.op = "find" /\ res.r.kind # "none"
     /\ \E i \in EntriesNamed(aid, res.name) : ArchiveEnts[aid][i].method = Stored)
  => \E i \in EntriesNamed(aid, res.name) :
       LET e == ArchiveEnts[aid][i]
       IN  /\ e.method = Stored
           /\ res.r.kind = "pointer"
           /\ res.r.start = LocalOffset(ArchiveEnts[aid], i) + LocalHeaderSize
                              + Len(e.lname) + Len(e.lextra)
           /\ res.r.length = Len(e.content)
           /\ RegionBytes(Region, res.r) = e.content

\* a Stored entry was found whose local header has an extra field
C6_Witness ==
  /\ res.op = "find"
  /\ res.r.kind = "pointer"
  /\ \E i \in EntriesNamed(aid, res.name) : ArchiveEnts[aid][i].lextra # <<>>

\* C10: open leaves its loops on every region: it returns (a trapped read or
\* a run cut off by MaxRepeat counts as leaving them too).
C10_OpenTerminates == <>(opc \in {"returned", "aborted", "fault", "capped"})

-----------------------------------------------------------------------------------------------------------------------------------------------------
(* C strings.  A pointer that may be null is a sequence of at most one      *)
(* element: <<>> is the null pointer, <<x>> points to x.                   *)

Slash == 47
Dot == 46
LBracket == 91
RBracket == 93
PathSeparator == 58    \* ':'

append(a, b, c) == a \o b \o c

\* Tokenizer: hasMore skips delimiters, next reads up to the next delimiter
RECURSIVE TokenizeFrom(_, _, _, _, _)
TokenizeFrom(s, delimiter, i, cur, acc) ==
  IF i > Len(s)
  THEN IF cur = <<>> THEN acc ELSE Append(acc, cur)
  ELSE IF s[i] = delimiter
  THEN TokenizeFrom(s, delimiter, i + 1, <<>>,
                    IF cur = <<>> THEN acc ELSE Append(acc, cur))
  ELSE TokenizeFrom(s, delimiter, i + 1, Append(cur, s[i]), acc)

Tokenize(s, delimiter) == TokenizeFrom(s, delimiter, 1, <<>>, <<>>)

RECURSIVE Join(_, _)
Join(parts, sep) ==
  IF Len(parts) = 0 THEN <<>>
  ELSE IF Len(parts) = 1 THEN parts[1]
  ELSE parts[1] \o <<sep>> \o Join(Tail(parts), sep)

-----------------------------------------------------------------------------
(* System: the file system, the boot library *)

TypeFile == "TypeFile"
TypeDirectory == "TypeDirectory"
TypeDoesNotExist == "TypeDoesNotExist"

NameDot == <<46>>                \* "."
NameDotDot == <<46, 46>>         \* ".."
NameDotG == <<46, 103>>          \* ".g"
NameDotH == <<46, 104>>          \* ".h"
NameDotK == <<46, 107>>          \* ".k"
NameC == <<67>>                  \* "C"
NameM == <<77>>                  \* "M"
NameSlashA == <<47, 65>>         \* "/A"
Named == <<100>>                 \* "d"
Namee == <<101>>                 \* "e"
Nameg == <<103>>                 \* "g"
Namej == <<106>>                 \* "j"
Names == <<115>>                 \* "s"
Namet == <<116>>                 \* "t"
Nameu == <<117>>                 \* "u"
Namev == <<118>>                 \* "v"
Namex == <<120>>                 \* "x"
Namez == <<122>>                 \* "z"
NameBuiltin == <<98>>            \* "b"
TokenBuiltin == <<91, 98, 93>>   \* "[b]"
TokenNothing == <<91, 110>>      \* "[n", which names nothing
BootLibrary == <<76>>            \* "L"

File(bytes) == [type |-> TypeFile, list |-> <<>>, bytes |-> bytes]
Directory(list) == [type |-> TypeDirectory, list |-> list, bytes |-> <<>>]

Under(a, b) == append(a, <<Slash>>, b)

\* the archive file j: A differs from d/A
JarEntries ==
  << StoredEntry(NameA, <<2>>),
     DeflatedEntry(NamePX, <<7, 8, 9>>),
     StoredEntry(NameA, <<4>>) >>

\* the archive the boot library's function b returns
BuiltinEntries ==
  << StoredEntry(NameA, <<3>>),
     Entry(NameM, 9, <<7, 8>>, 2, <<7, 8>>),
     StoredEntry(NameC, <<5, 6>>) >>

\* every directory lists "." and ".."; entries come in the order the
\* directory handle produces them (the bytes of j are the archive, see FileBytes)
FS ==
  (Named :> Directory(<<NameDot, NameDotDot, NameA, NameDotH, Names, NameDotG, Namez>>))
  @@ (Under(Named, NameA) :> File(<<1>>))
  @@ (Under(Named, NameDotH) :> File(<<1>>))
  @@ (Under(Named, Namez) :> File(<<>>))
  @@ (Under(Named, Names) :> Directory(<<NameDot, NameDotDot, NameB, Namet, NameDotK>>))
  @@ (Under(Under(Named, Names), NameB) :> File(<<1>>))
  @@ (Under(Under(Named, Names), NameDotK) :> File(<<1>>))
  @@ (Under(Under(Named, Names), Namet) :> Directory(<<NameDot, NameDotDot, NameC>>))
  @@ (Under(Under(Under(Named, Names), Namet), NameC) :> File(<<1>>))
  @@ (Under(Named, NameDotG) :> Directory(<<NameDot, NameDotDot, Namex>>))
  @@ (Under(Under(Named, NameDotG), Namex) :> File(<<1>>))
  @@ (Namee :> Directory(<<NameDot, NameDotDot>>))
  @@ (Nameg :> Directory(<<NameDotDot, Nameu, NameDot>>))
  @@ (Under(Nameg, Nameu) :> Directory(<<NameDot, NameDotDot, Namev>>))
  @@ (Under(Under(Nameg, Nameu), Namev) :> Directory(<<NameDot, NameDotDot>>))
  @@ (Namej :> File(<<>>))

\* path resolution: repeated and trailing separators do not matter
Resolve(path) == Join(Tokenize(path, Slash), Slash)

identify(path) ==
  IF Resolve(path) \in DOMAIN FS THEN FS[Resolve(path)].type ELSE TypeDoesNotExist

\* System::open succeeds on a directory that can be read
opens(e, path) == identify(path) = TypeDirectory /\ Resolve(path) \notin e.locked

\* System::map succeeds on a regular file that can be read
maps(e, path) == identify(path) = TypeFile /\ Resolve(path) \notin e.locked

FileBytes(path) ==
  IF Resolve(path) = Namej THEN Zip(JarEntries, 0, <<>>) ELSE FS[Resolve(path)].bytes

Listing(path) == FS[Resolve(path)].list

\* what System::load, Library::resolve and the resolved function come to
BuiltinOutcomes == {"data", "no library", "no symbol", "no data"}

\* the environment of a run
Envs(lockable) == [locked : SUBSET lockable, builtin : BuiltinOutcomes]

-----------------------------------------------------------------------------
(* DirectoryElement::Iterator.  The iterators of one enumeration are the    *)
(* frames of ds.frames: frame k + 1 is the it of frame k.  ds.handles are   *)
(* the directory handles System::open has given out, in order; a frame's    *)
(* directory is the number of its handle, or NULL.                          *)

\* Iterator(s, name, skip), made the it of the last frame
DirIterator(e, ds, name, skip) ==
  IF opens(e, name)
  THEN [frames |-> Append(ds.frames,
                          [name |-> name, skip |-> skip,
                           directory |-> Len(ds.handles) + 1, last |-> <<>>]),
        handles |-> Append(ds.handles, [path |-> name, pos |-> 0, open |-> TRUE])]
  ELSE [frames |-> Append(ds.frames,
                          [name |-> name, skip |-> skip,
                           directory |-> NULL, last |-> <<>>]),
        handles |-> ds.handles]

\* for (v = directory->next(); v; v = directory->next()) up to the first v
\* with v[0] != '.': the entries read, and v
RECURSIVE ReadEntries(_, _)
ReadEntries(list, pos) ==
  IF pos >= Len(list) THEN [pos |-> pos, v |-> <<>>]
  ELSE IF list[pos + 1][1] # Dot THEN [pos |-> pos + 1, v |-> <<list[pos + 1]>>]
  ELSE ReadEntries(list, pos + 1)

\* ... without directory->dispose()
DirDisposeAtLeaky(ds, k) ==
  IF ds.frames[k].directory = NULL
  THEN [ds |-> ds, v |-> <<>>, crashed |-> TRUE]
  ELSE [ds |-> [ds EXCEPT !.frames = SubSeq(@, 1, k - 1)], v |-> <<>>,
        crashed |-> FALSE]

\* Iterator::dispose() of frame k: a null directory is dereferenced; the
\* frame's own it is left as it is, out of reach
DirDisposeAt(ds, k) ==
  LET f == ds.frames[k]
  IN  IF f.directory = NULL
      THEN [ds |-> ds, v |-> <<>>, crashed |-> TRUE]
      ELSE [ds |-> [frames |-> SubSeq(ds.frames, 1, k - 1),
                    handles |-> [ds.handles EXCEPT ![f.directory].open = FALSE]],
            v |-> <<>>, crashed |-> FALSE]

\* last = append(s, name, "/", v) and what follows it, in frame k
DirEntry(e, ds, k, last) ==
  [ds |-> IF identify(last) = TypeDirectory
          THEN DirIterator(e, [ds EXCEPT !.frames[k].last = <<last>>], last,
                           ds.frames[k].skip)
          ELSE [ds EXCEPT !.frames[k].last = <<last>>],
   v |-> <<SubSeq(last, ds.frames[k].skip + 1, Len(last))>>,
   crashed |-> FALSE]

\* Iterator::next() of frame k, from if (last) on
DirOwnNext(e, ds, k) ==
  LET f == ds.frames[k]
  IN  IF f.directory = NULL
      THEN [ds |-> ds, v |-> <<>>, crashed |-> FALSE]
      ELSE With(ReadEntries(Listing(ds.handles[f.directory].path),
                            ds.handles[f.directory].pos),
                LAMBDA rd :
                  IF rd.v = <<>>
                  THEN [ds |-> [ds EXCEPT !.handles[f.directory].pos = rd.pos],
                        v |-> <<>>, crashed |-> FALSE]
                  ELSE DirEntry(e, [ds EXCEPT !.handles[f.directory].pos = rd.pos], k,
                                append(f.name, <<Slash>>, rd.v[1])))

\* Iterator::next() of frame k
RECURSIVE DirNextAt(_, _, _)
DirNextAt(e, ds, k) ==
  IF k < Len(ds.frames)
  THEN With(DirNextAt(e, ds, k + 1),
            LAMBDA r :
              IF r.crashed \/ r.v # <<>>
              THEN r
              ELSE With(DirDisposeAt(r.ds, k + 1),
                        LAMBDA d : IF d.crashed THEN d ELSE DirOwnNext(e, d.ds, k)))
  ELSE DirOwnNext(e, ds, k)

-----------------------------------------------------------------------------
(* Element: DirectoryElement, JarElement, BuiltinElement *)

\* JarIndex::open(s, region) run to its return, on a region whose
\* surroundings read as zero
RECURSIVE OpenRun(_, _, _, _)
OpenRun(m, traps, limit, st) ==
  CASE st.opc = "scan" -> OpenRun(m, traps, limit, ScanNext(m, traps, st))
    [] st.opc = "walk" -> OpenRun(m, traps, limit, WalkNext(m, traps, limit, st))
    [] OTHER -> st

open(m) ==
  OpenRun(m, FALSE, MaxEntries,
          [opc |-> "scan", p |-> Len(m.bytes) - EocdBack,
           index |-> make(InitialCapacity), oob |-> FALSE]).index

\* an Element as its constructor leaves it; library is the Builtin's field no
\* constructor sets.  made counts, for the element, the System::load and
\* System::map calls that succeeded, the calls of the library's function and
\* the calls of JarIndex::open.
NewElement(kind, name) ==
  [kind |-> kind, name |-> name, next |-> NULL, region |-> <<>>, index |-> <<>>,
   library |-> IF kind = "Builtin" THEN "uninitialized" ELSE "none",
   libraryName |-> IF kind = "Builtin" THEN <<BootLibrary>> ELSE <<>>,
   made |-> [loads |-> 0, maps |-> 0, calls |-> 0, opens |-> 0]]

Counted(n) == IF n < MaxCalls THEN n + 1 ELSE n

MappedRegion(bytes) == [bytes |-> bytes, fill |-> 0]

\* JarElement::init()
JarInit(e, el) ==
  IF el.index = <<>> /\ maps(e, el.name)
  THEN With(MappedRegion(FileBytes(el.name)),
            LAMBDA m : [el EXCEPT !.region = <<m>>, !.index = <<open(m)>>,
                                  !.made.maps = Counted(@),
                                  !.made.opens = Counted(@)])
  ELSE el

\* BuiltinElement::init()
BuiltinInit(e, el) ==
  IF el.index # <<>> \/ e.builtin = "no library" THEN el
  ELSE IF e.builtin = "data" /\ el.name = NameBuiltin
  THEN With(MappedRegion(Zip(BuiltinEntries, 0, <<>>)),
            LAMBDA m : [el EXCEPT !.library = "loaded", !.region = <<m>>,
                                  !.index = <<open(m)>>,
                                  !.made.loads = Counted(@),
                                  !.made.calls = Counted(@),
                                  !.made.opens = Counted(@)])
  ELSE [el EXCEPT !.library = "loaded", !.made.loads = Counted(@),
                  !.made.calls = IF e.builtin = "no data" THEN Counted(@) ELSE @]

init(e, el) == IF el.kind = "Builtin" THEN BuiltinInit(e, el) ELSE JarInit(e, el)

\* while (*name == '/') name++
RECURSIVE SkipSlashes(_)
SkipSlashes(name) ==
  IF Len(name) > 0 /\ name[1] = Slash THEN SkipSlashes(Tail(name)) ELSE name

MapResult(bytes) == [kind |-> "mapped", start |-> 0, length |-> Len(bytes), data |-> bytes]

\* DirectoryElement::find(name)
DirectoryFind(e, el, name) ==
  With(append(el.name, <<Slash>>, name),
       LAMBDA file :
         With(IF maps(e, file) THEN MapResult(FileBytes(file)) ELSE NoRegion,
              LAMBDA r : [el |-> el, r |-> r, content |-> r.data]))

\* DirectoryElement::exists(name)
DirectoryExists(e, el, name) ==
  [el |-> el, b |-> identify(append(el.name, <<Slash>>, name)) # TypeDoesNotExist]

\* JarElement::find(name)
JarFind(e, el, name, g) ==
  With(init(e, el),
       LAMBDA el1 :
         With(IF el1.index # <<>>
              THEN find(el1.region[1], el1.index[1], SkipSlashes(name), g)
              ELSE NoRegion,
              LAMBDA r : [el |-> el1, r |-> r,
                          content |-> IF r.kind \in {"pointer", "data"}
                                      THEN RegionBytes(el1.region[1], r) ELSE <<>>]))

\* JarElement::exists(name)
JarExists(e, el, name) ==
  With(init(e, el),
       LAMBDA el1 :
         [el |-> el1,
          b |-> IF el1.index # <<>>
                THEN exists(el1.region[1], el1.index[1], SkipSlashes(name))
                ELSE FALSE])

\* e->find(name)
ElementFind(e, el, name, g) ==
  IF el.kind = "Directory" THEN DirectoryFind(e, el, name) ELSE JarFind(e, el, name, g)

\* e->exists(name)
ElementExists(e, el, name) ==
  IF el.kind = "Directory" THEN DirectoryExists(e, el, name) ELSE JarExists(e, el, name)

Event(ev, id) == [ev |-> ev, id |-> id]

\* JarElement::dispose()
JarDispose(el, id) ==
  <<Event("free name", id)>>
  \o (IF el.index # <<>> THEN <<Event("dispose index", id)>> ELSE <<>>)
  \o (IF el.region # <<>> THEN <<Event("dispose region", id)>> ELSE <<>>)
  \o <<Event("free element", id)>>

\* t->dispose().  A Builtin whose library was never loaded calls disposeAll
\* through a pointer nothing has set: ub is what that call comes to.
ElementDispose(el, id, ub) ==
  CASE el.kind = "Directory" ->
         [log |-> <<Event("free name", id), Event("free element", id)>>,
          crashed |-> FALSE]
    [] el.kind = "Jar" -> [log |-> JarDispose(el, id), crashed |-> FALSE]
    [] OTHER ->
         IF el.library = "uninitialized" /\ ub = "crash"
         THEN [log |-> <<>>, crashed |-> TRUE]
         ELSE [log |-> <<Event("disposeAll library", id),
                         Event("free libraryName", id)>> \o JarDispose(el, id),
               crashed |-> FALSE]

UndefinedCalls == {"crash", "returns"}

\* it is [kind, elem, position]: new Iterator(s, index) of the JarElement elem,
\* or Iterator(s, name, strlen(name) + 1) of the DirectoryElement elem
\* e->iterator() of element id
ElementIterator(e, elems, ds, id) ==
  IF elems[id].kind = "Directory"
  THEN [elems |-> elems,
        ds |-> DirIterator(e, ds, elems[id].name, Len(elems[id].name) + 1),
        it |-> [kind |-> "Directory", elem |-> id, position |-> 0]]
  ELSE [elems |-> [elems EXCEPT ![id] = init(e, @)],
        ds |-> ds,
        it |-> [kind |-> "Jar", elem |-> id, position |-> 0]]

\* ... with nodes + (++position) for nodes + (position++)
JarIteratorNextPre(elems, ds, it) ==
  LET el == elems[it.elem]
  IN  IF it.position + 1 < el.index[1].position
      THEN LET c == el.index[1].nodes[it.position + 2].entry
               m == el.region[1]
           IN  [ds |-> ds, it |-> [it EXCEPT !.position = @ + 1],
                v |-> <<Bytes(m, fileName(c), fileNameLength(m, c))>>,
                crashed |-> FALSE]
      ELSE [ds |-> ds, it |-> it, v |-> <<>>, crashed |-> FALSE]

\* JarElement::Iterator::next(): a null index is dereferenced
JarIteratorNext(elems, ds, it) ==
  LET el == elems[it.elem]
  IN  IF el.index = <<>>
      THEN [ds |-> ds, it |-> it, v |-> <<>>, crashed |-> TRUE]
      ELSE IF it.position < el.index[1].position
      THEN LET c == el.index[1].nodes[it.position + 1].entry
               m == el.region[1]
           IN  [ds |-> ds, it |-> [it EXCEPT !.position = @ + 1],
                v |-> <<Bytes(m, fileName(c), fileNameLength(m, c))>>,
                crashed |-> FALSE]
      ELSE [ds |-> ds, it |-> it, v |-> <<>>, crashed |-> FALSE]

\* it->next(size)
IteratorNext(e, elems, ds, it) ==
  IF it.kind = "Directory"
  THEN With(DirNextAt(e, ds, 1),
            LAMBDA r : [ds |-> r.ds, it |-> it, v |-> r.v, crashed |-> r.crashed])
  ELSE JarIteratorNext(elems, ds, it)

\* it->dispose()
IteratorDispose(ds, it) ==
  IF it.kind = "Directory"
  THEN With(DirDisposeAt(ds, 1), LAMBDA r : [ds |-> r.ds, crashed |-> r.crashed])
  ELSE [ds |-> ds, crashed |-> FALSE]

-----------------------------------------------------------------------------
(* parsePath, MyFinder, MyIterator.  Elements are numbered in the order     *)
(* parsePath allocates them; an Element* is that number, or NULL.           *)

bracketed(token) == token[1] = LBracket /\ token[Len(token)] = RBracket

\* the element parsePath makes of a token, if any
ElementOf(token) ==
  IF bracketed(token)
  THEN <<NewElement("Builtin", SubSeq(token, 2, Len(token) - 1))>>
  ELSE CASE identify(token) = TypeFile -> <<NewElement("Jar", token)>>
         [] identify(token) = TypeDirectory -> <<NewElement("Directory", token)>>
         [] OTHER -> <<>>

LinkElementAlways(st, e) ==
  IF e = <<>>
  THEN [st EXCEPT !.prev = NULL]
  ELSE LET id == Len(st.elems) + 1
       IN  [elems |-> IF st.prev # NULL
                      THEN [Append(st.elems, e[1]) EXCEPT ![st.prev].next = id]
                      ELSE Append(st.elems, e[1]),
            first |-> IF st.prev # NULL THEN st.first ELSE id,
            prev |-> id]

\* if (e) { if (prev) prev->next = e; else first = e; prev = e; }
LinkElement(st, e) ==
  IF e = <<>>
  THEN st
  ELSE LET id == Len(st.elems) + 1
       IN  [elems |-> IF st.prev # NULL
                      THEN [Append(st.elems, e[1]) EXCEPT ![st.prev].next = id]
                      ELSE Append(st.elems, e[1]),
            first |-> IF st.prev # NULL THEN st.first ELSE id,
            prev |-> id]

RECURSIVE ParseFrom(_, _, _)
ParseFrom(tokens, i, st) ==
  IF i > Len(tokens) THEN st
  ELSE ParseFrom(tokens, i + 1, LinkElement(st, ElementOf(tokens[i])))

parsePath(path) ==
  ParseFrom(Tokenize(path, PathSeparator), 1,
            [elems |-> <<>>, first |-> NULL, prev |-> NULL])

NoFound == [elems |-> <<>>, r |-> NoRegion, content |-> <<>>, by |-> NULL]

RECURSIVE FindLast(_, _, _, _, _, _)
FindLast(e, elems, el, name, g, acc) ==
  IF el = NULL THEN [acc EXCEPT !.elems = elems]
  ELSE With(ElementFind(e, elems[el], name, g),
            LAMBDA x :
              FindLast(e, [elems EXCEPT ![el] = x.el], elems[el].next, name, g,
                       IF x.r.kind # "none"
                       THEN [elems |-> <<>>, r |-> x.r, content |-> x.content, by |-> el]
                       ELSE acc))

FindFromLast(e, elems, el, name, g) == FindLast(e, elems, el, name, g, NoFound)

\* MyFinder::find(name), from element el on: an abort inside e->find ends it
RECURSIVE FindFrom(_, _, _, _, _)
FindFrom(e, elems, el, name, g) ==
  IF el = NULL THEN [NoFound EXCEPT !.elems = elems]
  ELSE With(ElementFind(e, elems[el], name, g),
            LAMBDA x :
              IF x.r.kind # "none"
              THEN [elems |-> [elems EXCEPT ![el] = x.el], r |-> x.r,
                    content |-> x.content, by |-> el]
              ELSE FindFrom(e, [elems EXCEPT ![el] = x.el], elems[el].next, name, g))

\* MyFinder::exists(name), from element el on
RECURSIVE ExistsFrom(_, _, _, _)
ExistsFrom(e, elems, el, name) ==
  IF el = NULL THEN [elems |-> elems, b |-> FALSE, by |-> NULL]
  ELSE With(ElementExists(e, elems[el], name),
            LAMBDA x :
              IF x.b
              THEN [elems |-> [elems EXCEPT ![el] = x.el], b |-> TRUE, by |-> el]
              ELSE ExistsFrom(e, [elems EXCEPT ![el] = x.el], elems[el].next, name))

\* the loop of MyFinder::dispose(), from element el on:
\* Element* t = e; e = e->next; t->dispose();
RECURSIVE DisposeFrom(_, _, _, _)
DisposeFrom(elems, el, ub, log) ==
  IF el = NULL THEN [log |-> log, crashed |-> FALSE]
  ELSE With(ElementDispose(elems[el], el, ub),
            LAMBDA d :
              IF d.crashed
              THEN [log |-> log \o <<Event("read next", el)>> \o d.log, crashed |-> TRUE]
              ELSE DisposeFrom(elems, elems[el].next, ub,
                               log \o <<Event("read next", el)>> \o d.log))

\* MyFinder::dispose()
FinderDispose(elems, path, ub) ==
  With(DisposeFrom(elems, path, ub, <<>>),
       LAMBDA d :
         IF d.crashed THEN d
         ELSE [log |-> d.log \o <<Event("free pathString", NULL),
                                   Event("free finder", NULL)>>,
               crashed |-> FALSE])

\* MyIterator(s, path)
MyIterator(e, elems, ds, path) ==
  IF path = NULL
  THEN [elems |-> elems, ds |-> ds, e |-> NULL, it |-> NoIt, log |-> <<>>]
  ELSE With(ElementIterator(e, elems, ds, path),
            LAMBDA n : [elems |-> n.elems, ds |-> n.ds, e |-> elems[path].next,
                        it |-> n.it, log |-> <<Event("iterator", path)>>])

AdvanceNowhere(e, s) == [s EXCEPT !.it = NoIt]

\* if (e) { it = e->iterator(); e = e->next; } else { it = 0; }
Advance(e, s) ==
  IF s.e # NULL
  THEN With(ElementIterator(e, s.elems, s.ds, s.e),
            LAMBDA n : [s EXCEPT !.elems = n.elems, !.ds = n.ds, !.it = n.it,
                                 !.e = s.elems[s.e].next,
                                 !.log = Append(@, Event("iterator", s.e))])
  ELSE [s EXCEPT !.it = NoIt]

\* MyIterator::next(size); s holds the iterator's fields, what they reach,
\* and the history of the element iterators
RECURSIVE MyIteratorNext(_, _)
MyIteratorNext(e, s) ==
  IF s.it.kind = "none"
  THEN [s EXCEPT !.v = <<>>]
  ELSE With(IteratorNext(e, s.elems, s.ds, s.it),
            LAMBDA r :
              IF r.crashed
              THEN [s EXCEPT !.crashed = TRUE]
              ELSE IF r.v # <<>>
              THEN [s EXCEPT !.ds = r.ds, !.it = r.it, !.v = r.v]
              ELSE With(IteratorDispose(r.ds, r.it),
                        LAMBDA d :
                          IF d.crashed
                          THEN [s EXCEPT !.ds = r.ds, !.crashed = TRUE]
                          ELSE MyIteratorNext(e, Advance(e,
                                 [s EXCEPT !.ds = d.ds, !.it = r.it,
                                           !.log = Append(@, Event("dispose iterator",
                                                                   r.it.elem))]))))

MyIteratorDisposeNothing(ds, it) == [ds |-> ds, crashed |-> FALSE, log |-> <<>>]

\* MyIterator::dispose()
MyIteratorDispose(ds, it) ==
  IF it.kind # "none"
  THEN With(IteratorDispose(ds, it),
            LAMBDA d : [ds |-> d.ds, crashed |-> d.crashed,
                        log |-> IF d.crashed THEN <<>>
                                ELSE <<Event("dispose iterator", it.elem)>>])
  ELSE [ds |-> ds, crashed |-> FALSE, log |-> <<>>]

-----
(* The Finder, driven through its interface *)

Tokens == {Named, Namej, TokenBuiltin, TokenNothing}

\* the search paths of at most MaxTokens tokens
Paths == { Join(ts, PathSeparator) : ts \in UNION { [1..n -> Tokens] : n \in 0..MaxTokens } }

\* the names asked for
FinderNames == {NameA, NameSlashA, Names, NameM, NameMissing}

\* the files and directories that may be unreadable
Lockable == {Namej, Under(Named, Names)}

Relevant(path, e) ==
  LET ts == Tokenize(path, PathSeparator)
      has(t) == \E i \in 1..Len(ts) : ts[i] = t
  IN  /\ ~has(TokenBuiltin) => e.builtin = "data"
      /\ ~has(Namej) => Namej \notin e.locked
      /\ ~has(Named) => Under(Named, Names) \notin e.locked

FInit ==
  /\ IIdle
  /\ fpath \in Paths
  /\ sys \in Envs(Lockable)
  /\ Relevant(fpath, sys)
  /\ FIdle

\* makeFinder(s, path, bootLibrary)
MakeFinder ==
  /\ fstat = "new"
  /\ \E st \in {parsePath(fpath)} : heap' = st.elems /\ path_' = st.first
  /\ fstat' = "made"
  /\ UNCHANGED <<ivars, fpath, sys, fres, flog, mit, dirs, yielded, ipc>>

Alive == fstat = "made" /\ ipc # "crashed"

\* Finder::find(name)
FinderFind ==
  /\ Alive
  /\ \E name \in FinderNames, g \in Garbage :
       \E x \in {FindFrom(sys, heap, path_, name, g)} :
           /\ heap' = x.elems
           /\ fres' = [op |-> "find", name |-> name, r |-> x.r, content |-> x.content,
                       b |-> x.r.kind \notin {"none", "abort"}, by |-> x.by]
           /\ fstat' = IF x.r.kind = "abort" THEN "aborted" ELSE fstat
  /\ UNCHANGED <<ivars, fpath, sys, path_, flog, mit, dirs, yielded, ipc>>

\* Finder::exists(name)
FinderExists ==
  /\ Alive
  /\ \E name \in FinderNames :
       \E x \in {ExistsFrom(sys, heap, path_, name)} :
           /\ heap' = x.elems
           /\ fres' = [op |-> "exists", name |-> name, r |-> NoRegion, content |-> <<>>,
                       b |-> x.b, by |-> x.by]
  /\ UNCHANGED <<ivars, fpath, sys, path_, fstat, flog, mit, dirs, yielded, ipc>>

\* Finder::dispose(), with no iterator left
Dispose ==
  /\ Alive
  /\ ipc \in {"none", "disposed"}
  /\ \E ub \in UndefinedCalls :
       \E d \in {FinderDispose(heap, path_, ub)} :
           /\ flog' = flog \o d.log
           /\ fstat' = IF d.crashed THEN "crashed" ELSE "disposed"
  /\ fres' = [NoFRes EXCEPT !.op = "dispose"]
  /\ UNCHANGED <<ivars, fpath, sys, heap, path_, mit, dirs, yielded, ipc>>

Next == MakeFinder \/ FinderFind \/ FinderExists \/ Dispose

Spec == FInit /\ [][Next]_vars

\* Finder::iterator()
Iterator ==
  /\ Alive
  /\ ipc = "none"
  /\ \E n \in {MyIterator(sys, heap, dirs, path_)} :
         /\ heap' = n.elems
         /\ dirs' = n.ds
         /\ mit' = [e |-> n.e, it |-> n.it]
         /\ flog' = flog \o n.log
  /\ ipc' = "iter"
  /\ UNCHANGED <<ivars, fpath, sys, path_, fstat, fres, yielded>>

\* Finder::Iterator::next()
IteratorStep ==
  /\ Alive
  /\ ipc \in {"iter", "end"}
  /\ \E s \in {MyIteratorNext(sys, [elems |-> heap, ds |-> dirs, e |-> mit.e,
                                        it |-> mit.it, v |-> <<>>, crashed |-> FALSE,
                                        log |-> flog])} :
         /\ heap' = s.elems
         /\ flog' = s.log
         /\ dirs' = s.ds
         /\ mit' = [e |-> s.e, it |-> s.it]
         /\ yielded' = IF ~s.crashed /\ s.v # <<>> THEN Append(yielded, s.v[1]) ELSE yielded
         /\ ipc' = IF s.crashed THEN "crashed" ELSE IF s.v = <<>> THEN "end" ELSE "iter"
  /\ UNCHANGED <<ivars, fpath, sys, path_, fstat, fres>>

\* Finder::Iterator::dispose()
IteratorDone ==
  /\ Alive
  /\ ipc \in {"iter", "end"}
  /\ \E d \in {MyIteratorDispose(dirs, mit.it)} :
         /\ dirs' = d.ds
         /\ flog' = flog \o d.log
         /\ ipc' = IF d.crashed THEN "crashed" ELSE "disposed"
  /\ mit' = NoMit
  /\ UNCHANGED <<ivars, fpath, sys, heap, path_, fstat, fres, yielded>>

ItNext == MakeFinder \/ Iterator \/ IteratorStep \/ IteratorDone \/ Dispose

SpecIter == FInit /\ [][ItNext]_vars

-----------------------------------------------------------------------------
(* One DirectoryElement, driven through Element::Iterator *)

DirRoots == {Named, Namee, Nameg}

DirLockable == {Named, Under(Named, Names), Under(Under(Named, Names), Namet),
                Under(Nameg, Nameu)}

DInit ==
  /\ IIdle
  /\ fpath \in DirRoots
  /\ sys \in Envs(DirLockable)
  /\ sys.builtin = "data"
  /\ FIdle

\* e->iterator() on the path's one element
DirElementIterator ==
  /\ Alive
  /\ ipc = "none"
  /\ \E n \in {ElementIterator(sys, heap, dirs, path_)} :
         /\ dirs' = n.ds
         /\ mit' = [e |-> NULL, it |-> n.it]
  /\ ipc' = "iter"
  /\ UNCHANGED <<ivars, fpath, sys, heap, path_, fstat, fres, flog, yielded>>

\* it->next(size), until it has returned null
DirElementNext ==
  /\ Alive
  /\ ipc = "iter"
  /\ \E r \in {IteratorNext(sys, heap, dirs, mit.it)} :
         /\ dirs' = r.ds
         /\ yielded' = IF ~r.crashed /\ r.v # <<>> THEN Append(yielded, r.v[1]) ELSE yielded
         /\ ipc' = IF r.crashed THEN "crashed" ELSE IF r.v = <<>> THEN "end" ELSE "iter"
  /\ UNCHANGED <<ivars, fpath, sys, heap, path_, fstat, fres, flog, mit>>

\* it->dispose()
DirElementDispose ==
  /\ Alive
  /\ ipc \in {"iter", "end"}
  /\ \E d \in {IteratorDispose(dirs, mit.it)} :
         /\ dirs' = d.ds
         /\ ipc' = IF d.crashed THEN "crashed" ELSE "disposed"
  /\ mit' = NoMit
  /\ UNCHANGED <<ivars, fpath, sys, heap, path_, fstat, fres, flog, yielded>>

DNext == MakeFinder \/ DirElementIterator \/ DirElementNext \/ DirElementDispose

SpecDir == DInit /\ [][DNext]_vars

-----------------------------------------------------------------------------
(* Claims about the Finder, checked under Spec *)

RECURSIVE ListFrom(_, _, _)
ListFrom(elems, el, fuel) ==
  IF el = NULL \/ fuel = 0 THEN <<>>
  ELSE <<el>> \o ListFrom(elems, elems[el].next, fuel - 1)

\* the elements reached from path_ through next, in order
PathList == ListFrom(heap, path_, Len(heap) + 1)

\* element id's own find(name)
OwnFind(id, name, g) == ElementFind(sys, heap[id], name, g)

\* C1: Finder.find(name) returns the result of the first element, in path
\* order, whose own find(name) is non-empty, and none only when every
\* element's find(name) is empty
C1_FirstMatch ==
  fres.op = "find" =>
    LET order == PathList
        hits == { i \in 1..Len(order) :
                    \A g \in Garbage : OwnFind(order[i], fres.name, g).r.kind # "none" }
    IN  IF hits = {}
        THEN fres.r = NoRegion /\ fres.by = NULL
        ELSE LET i == CHOOSE i \in hits : \A j \in hits : i <= j
             IN  /\ fres.by = order[i]
                 /\ \E g \in Garbage :
                      /\ fres.r = OwnFind(order[i], fres.name, g).r
                      /\ fres.content = OwnFind(order[i], fres.name, g).content

\* C1: two elements of the path hold the name with different content, and
\* find has returned the earlier one's
C1_Witness ==
  /\ fres.op = "find"
  /\ fres.b
  /\ LET order == PathList
     IN  \E i, j \in 1..Len(order) :
           /\ i < j
           /\ fres.by = order[i]
           /\ OwnFind(order[j], fres.name, 0).r.kind \in {"mapped", "pointer", "data"}
           /\ OwnFind(order[j], fres.name, 0).content # fres.content
           /\ OwnFind(order[i], fres.name, 0).content = fres.content

\* C2: for every element of the path, of whatever variant, and every name,
\* exists(name) is true exactly when find(name) returns a region
C2_ExistsIffFind ==
  fstat = "made" =>
    \A id \in 1..Len(heap), name \in FinderNames, g \in Garbage :
      ElementExists(sys, heap[id], name).b
        <=> OwnFind(id, name, g).r.kind \in {"mapped", "pointer", "data"}

\* the kind of element a token stands for, "none" if it stands for none
TokenKind(t) ==
  IF t[1] = LBracket /\ t[Len(t)] = RBracket THEN "Builtin"
  ELSE IF identify(t) = TypeFile THEN "Jar"
  ELSE IF identify(t) = TypeDirectory THEN "Directory"
  ELSE "none"

TokenName(t) == IF TokenKind(t) = "Builtin" THEN SubSeq(t, 2, Len(t) - 1) ELSE t

\* the tokens that stand for an element, in token order
RECURSIVE Kept(_)
Kept(ts) ==
  IF ts = <<>> THEN <<>>
  ELSE (IF TokenKind(Head(ts)) # "none" THEN <<Head(ts)>> ELSE <<>>) \o Kept(Tail(ts))

\* C8: the path holds exactly one element per token that is bracketed, a file
\* or a directory, of that kind and name, linked in token order; the tokens
\* that name nothing leave no element and no gap
C8_PathLinking ==
  fstat # "new" =>
    LET order == PathList
        kept == Kept(Tokenize(fpath, PathSeparator))
    IN  /\ Len(order) = Len(kept)
        /\ Len(heap) = Len(kept)
        /\ \A i \in 1..Len(order) :
             /\ heap[order[i]].kind = TokenKind(kept[i])
             /\ heap[order[i]].name = TokenName(kept[i])
             /\ heap[order[i]].next = IF i < Len(order) THEN order[i + 1] ELSE NULL
        /\ \A i, j \in 1..Len(order) : i # j => order[i] # order[j]
        /\ (path_ = NULL) <=> (kept = <<>>)

\* C8: a token naming nothing stood between two tokens that became elements
C8_Witness ==
  /\ fstat = "made"
  /\ LET ts == Tokenize(fpath, PathSeparator)
     IN  /\ Len(ts) = 3
         /\ TokenKind(ts[1]) = "Directory"
         /\ TokenKind(ts[2]) = "none"
         /\ TokenKind(ts[3]) = "Builtin"
  /\ path_ # NULL
  /\ heap[path_].kind = "Directory"
  /\ heap[path_].next # NULL
  /\ heap[heap[path_].next].kind = "Builtin"

\* where the first event ev of element id stands in the log, 0 if nowhere
At(log, ev, id) ==
  IF \E i \in 1..Len(log) : log[i] = Event(ev, id)
  THEN CHOOSE i \in 1..Len(log) :
         /\ log[i] = Event(ev, id)
         /\ \A j \in 1..(i - 1) : log[j] # Event(ev, id)
  ELSE 0

IsFree(ev) == ev.ev = "free element"

\* C9: once Finder.dispose() has been called, every element of the path has
\* been freed exactly once, in path order, each after its successor was read
\* and after its index and region (when present) were disposed, and the
\* finder was freed last
C9_DisposalOrder ==
  fres.op = "dispose" =>
    LET order == PathList
        frees == SelectSeq(flog, IsFree)
    IN  /\ Len(frees) = Len(order)
        /\ \A i \in 1..Len(order) : frees[i].id = order[i]
        /\ Len(flog) > 0 /\ flog[Len(flog)] = Event("free finder", NULL)
        /\ \A i \in 1..Len(order) :
             LET id == order[i]
             IN  /\ At(flog, "read next", id) > 0
                 /\ At(flog, "read next", id) < At(flog, "free name", id)
                 /\ At(flog, "free name", id) < At(flog, "free element", id)
                 /\ heap[id].index # <<>> =>
                      /\ At(flog, "dispose index", id) > 0
                      /\ At(flog, "dispose index", id) < At(flog, "free element", id)
                 /\ heap[id].region # <<>> =>
                      /\ At(flog, "dispose region", id) > At(flog, "dispose index", id)
                      /\ At(flog, "dispose region", id) < At(flog, "free element", id)

-----------------------------------------------------------------------------
(* Claims about enumeration, checked under SpecIter and SpecDir *)

IsPrefix(a, b) == Len(a) <= Len(b) /\ a = SubSeq(b, 1, Len(a))

\* an Element::Iterator driven until next returns null (or does not return)
RECURSIVE RunIterator(_, _, _, _, _)
RunIterator(e, elems, d, it, out) ==
  With(IteratorNext(e, elems, d, it),
       LAMBDA r :
         IF r.crashed \/ r.v = <<>> THEN out
         ELSE RunIterator(e, elems, r.ds, r.it, Append(out, r.v[1])))

\* element id's own complete enumeration
OwnEnumeration(id) ==
  With(ElementIterator(sys, heap, NoDs, id),
       LAMBDA n : RunIterator(sys, n.elems, n.ds, n.it, <<>>))

RECURSIVE Concatenation(_, _)
Concatenation(order, i) ==
  IF i > Len(order) THEN <<>>
  ELSE OwnEnumeration(order[i]) \o Concatenation(order, i + 1)

\* C3: the names a Finder iterator has produced when next() returns end are
\* the elements' own complete enumerations, one after the other in path order;
\* until then they are a prefix of that
C3_Concatenation ==
  /\ ipc = "end" => yielded = Concatenation(PathList, 1)
  /\ ipc # "none" => IsPrefix(yielded, Concatenation(PathList, 1))

\* C3: an enumeration that ended gave the name "A" once for each of two
\* elements that both hold it
C3_Witness ==
  /\ ipc = "end"
  /\ \E i, j \in 1..Len(PathList) :
       /\ i < j
       /\ heap[PathList[i]].kind = "Directory"
       /\ heap[PathList[j]].kind = "Jar"
       /\ \E k \in 1..Len(OwnEnumeration(PathList[i])) :
            OwnEnumeration(PathList[i])[k] = NameA
       /\ \E k \in 1..Len(OwnEnumeration(PathList[j])) :
            OwnEnumeration(PathList[j])[k] = NameA
  /\ Cardinality({ k \in 1..Len(yielded) : yielded[k] = NameA }) >= 2

Components(x) == Tokenize(x, Slash)

\* x lies below root, no component of x below root begins with '.', and every
\* directory from root down to x's parent can be read
Reachable(root, x) ==
  LET cr == Components(root)
      cx == Components(x)
  IN  /\ Len(cx) > Len(cr)
      /\ SubSeq(cx, 1, Len(cr)) = cr
      /\ \A i \in (Len(cr) + 1)..Len(cx) : cx[i][1] # Dot
      /\ \A n \in Len(cr)..(Len(cx) - 1) : opens(sys, Join(SubSeq(cx, 1, n), Slash))

Position(list, name) == CHOOSE i \in 1..Len(list) : list[i] = name

\* depth-first pre-order: a directory before what is below it, and otherwise
\* as the handle of the last common directory lists the two
Before(x, y) ==
  LET cx == Components(x)
      cy == Components(y)
  IN  \/ Len(cx) < Len(cy) /\ SubSeq(cy, 1, Len(cx)) = cx
      \/ \E i \in 1..Len(cx) :
           /\ i <= Len(cy)
           /\ SubSeq(cx, 1, i - 1) = SubSeq(cy, 1, i - 1)
           /\ cx[i] # cy[i]
           /\ LET list == Listing(Join(SubSeq(cx, 1, i - 1), Slash))
              IN  Position(list, cx[i]) < Position(list, cy[i])

HasHiddenComponent(name) ==
  \E i \in 1..Len(Components(name)) : Components(name)[i][1] = Dot

\* C7: a Directory element's enumeration gives exactly the entries reachable
\* from its root through components not beginning with '.', each once, as
\* root-relative paths, in depth-first pre-order; no name it gives has a
\* component beginning with '.'
C7_DirectoryEnumeration ==
  LET full == [i \in 1..Len(yielded) |-> append(fpath, <<Slash>>, yielded[i])]
  IN  /\ \A i \in 1..Len(yielded) :
           /\ ~HasHiddenComponent(yielded[i])
           /\ yielded[i][1] # Slash
           /\ Reachable(fpath, full[i])
           /\ full[i] \in DOMAIN FS
      /\ \A i, j \in 1..Len(yielded) : i < j => Before(full[i], full[j])
      /\ ipc \in {"end", "crashed"} =>
           \A x \in DOMAIN FS : Reachable(fpath, x) => \E i \in 1..Len(yielded) : full[i] = x

-----------------------------------------------------------------------------
(* Directory handles *)

\* the directory handles of the enumeration that are opened and not disposed
OpenHandles == { h \in 1..Len(dirs.handles) : dirs.handles[h].open }

\* C11, as stated: at every point of a Directory element's enumeration, at
\* any depth, at most one directory handle opened by the enumeration is open
C11_OneHandleOpen == Cardinality(OpenHandles) <= 1

\* the handles held by the iterators from the root's down to the innermost
HeldHandles ==
  { dirs.frames[k].directory : k \in 1..Len(dirs.frames) } \ {NULL}

\* C11, amended: until the iterator is disposed the open handles are those of
\* the iterators on the current nesting path, one for each level whose
\* directory could be opened, so at most as many as the levels entered
C11_HandlePerLevel ==
  ipc # "disposed" =>
    /\ OpenHandles = HeldHandles
    /\ Cardinality(OpenHandles) <= Len(dirs.frames)
    /\ \A j, k \in 1..Len(dirs.frames) :
         /\ j # k /\ dirs.frames[j].directory # NULL =>
              dirs.frames[j].directory # dirs.frames[k].directory
         /\ j < k => IsPrefix(dirs.frames[j].name, dirs.frames[k].name)

\* C11: three handles are open, the enumeration being two levels below its root
C11_Witness ==
  /\ ipc = "iter"
  /\ Len(dirs.frames) = 3
  /\ Cardinality(OpenHandles) = 3

\* C12: once the iterator of an enumeration has been disposed, at whatever
\* point of the enumeration, no directory handle the enumeration opened is
\* still open
C12_DisposeClosesAll == ipc = "disposed" => OpenHandles = {}

-----------------------------------------------------------------------------
(* Element iterators of a Finder iterator *)

\* how often ev of element id's iterator is among the first n events of log
Count(log, n, ev, id) == Cardinality({ i \in 1..n : log[i] = Event(ev, id) })

\* the elements whose iterator was obtained and not disposed, n events in
Live(log, n) ==
  { id \in 1..Len(heap) :
      Count(log, n, "iterator", id) > Count(log, n, "dispose iterator", id) }

\* no iterator is obtained while another is live, none is obtained twice or
\* disposed without having been obtained, and after dispose() none is live
IteratorsPaired ==
  /\ \A n \in 0..Len(flog) :
       /\ Cardinality(Live(flog, n)) <= 1
       /\ n < Len(flog) /\ flog[n + 1].ev = "iterator" => Live(flog, n) = {}
       /\ \A id \in 1..Len(heap) :
            /\ Count(flog, n, "iterator", id) <= 1
            /\ Count(flog, n, "dispose iterator", id) <= Count(flog, n, "iterator", id)
  /\ ipc = "disposed" => Live(flog, Len(flog)) = {}

\* after next() returned end, a next() returns end and obtains nothing
EndStays ==
  ipc = "end" =>
    /\ ipc' \in {"end", "disposed"}
    /\ ipc' = "end" => flog' = flog /\ yielded' = yielded /\ heap' = heap

\* C13: over next() calls followed by one dispose() on a Finder iterator, at
\* most one element iterator is live at a time, an exhausted one is disposed
\* before the next element's is obtained, every one obtained is disposed
\* exactly once, and after end every next() returns end and obtains none
C13_IteratorDiscipline == [](IteratorsPaired) /\ [][EndStays]_vars

\* C13: a Finder iterator over three elements disposed when it had exhausted
\* the first element's iterator and was part-way through the second's
C13_Witness ==
  /\ ipc = "disposed"
  /\ Len(PathList) = 3
  /\ yielded # <<>>
  /\ Count(flog, Len(flog), "iterator", PathList[1]) = 1
  /\ Count(flog, Len(flog), "dispose iterator", PathList[2]) = 1
  /\ Count(flog, Len(flog), "iterator", PathList[3]) = 0

-----------------------------------------------------------------------------
(* Initialisation of Jar and Builtin elements *)

\* C14: nothing is mapped or loaded when the path is parsed, and over any
\* calls of find and exists an element's file is mapped at most once, its
\* library loaded and its function called at most once, and its JarIndex
\* built at most once
C14_InitOnce ==
  \A id \in 1..Len(heap) :
    /\ heap[id].made.maps <= 1
    /\ heap[id].made.loads <= 1
    /\ heap[id].made.calls <= 1
    /\ heap[id].made.opens <= 1
    /\ fres.op = "none" /\ ipc = "none" =>
         /\ heap[id].made = [loads |-> 0, maps |-> 0, calls |-> 0, opens |-> 0]
         /\ heap[id].region = <<>>
         /\ heap[id].index = <<>>

-----------------------------------------------------------------------------
(* A JarElement's iterator, on the index JarIndex::open returned *)

\* a JarElement whose init() mapped the region and opened that index
OpenedElement ==
  << [NewElement("Jar", <<>>) EXCEPT !.region = <<Region>>, !.index = <<index>>] >>

\* JarElement::iterator()
JarIterator ==
  /\ opc = "returned"
  /\ ipc = "none"
  /\ mit' = [e |-> NULL, it |-> [kind |-> "Jar", elem |-> 1, position |-> 0]]
  /\ ipc' = "iter"
  /\ UNCHANGED <<ivars, fpath, sys, heap, path_, fstat, fres, flog, dirs, yielded>>

\* JarElement::Iterator::next(size), until it has returned null
JarIteratorStep ==
  /\ opc = "returned"
  /\ ipc = "iter"
  /\ \E r \in {JarIteratorNext(OpenedElement, dirs, mit.it)} :
       /\ mit' = [mit EXCEPT !.it = r.it]
       /\ yielded' = IF r.v # <<>> THEN Append(yielded, r.v[1]) ELSE yielded
       /\ ipc' = IF r.v = <<>> THEN "end" ELSE "iter"
  /\ UNCHANGED <<ivars, fpath, sys, heap, path_, fstat, fres, flog, dirs>>

JNext == ScanStep \/ WalkStep \/ JarIterator \/ JarIteratorStep

SpecJar == IInit /\ [][JNext]_vars

\* the names of the central directory's records, in its order
CentralNames == [i \in 1..Len(ArchiveEnts[aid]) |-> ArchiveEnts[aid][i].name]

\* C15: a Jar element's iterator gives the name of every indexed entry once,
\* at its full length, in central-directory order, whatever the number of
\* entries and of index growths
C15_JarEnumeration ==
  ipc \in {"iter", "end"} =>
    /\ IsPrefix(yielded, CentralNames)
    /\ Len(yielded) = mit.it.position
    /\ ipc = "end" => yielded = CentralNames

\* C15: the enumeration of an archive of more than twice the initial capacity
\* of entries, whose index grew twice, has ended
C15_Witness ==
  /\ ipc = "end"
  /\ Len(yielded) > 2 * InitialCapacity
  /\ index.capacity > 2 * InitialCapacity
  /\ Len(yielded) = Len(ArchiveEnts[aid])

-----------------------------------------------------------------------------
(* Elements whose archive cannot be obtained *)

\* the live element iterator is a JarElement::Iterator made with index == 0
OnMissingIndex == mit.it.kind = "Jar" /\ heap[mit.it.elem].index = <<>>

\* C16: enumerating a Finder never dereferences the index of a Jar or Builtin
\* element whose archive could not be obtained
C16_NoMissingIndex == ~(ipc = "crashed" /\ OnMissingIndex)

-----------------------------------------------------------------------------
(* Finder::dispose on Builtin elements *)

\* the Builtin elements of the path
Builtins == { id \in 1..Len(heap) : heap[id].kind = "Builtin" }

\* C17: Finder.dispose() after any calls of find and exists, or none,
\* completes, and calls disposeAll on a Builtin element's library only if
\* that element loaded one
C17_DisposeSafe ==
  fres.op = "dispose" =>
    /\ fstat = "disposed"
    /\ \A id \in Builtins :
         At(flog, "disposeAll library", id) > 0 => heap[id].library = "loaded"

-----------------------------------------------------------------------------
(* The bytes JarIndex::open reads *)

\* C18: every byte JarIndex::open reads (end-record scan, central-directory
\* offset, central-header signature, length fields, names) lies inside the
\* region, whatever the region's content and length
C18_ReadsInsideRegion == ~oob /\ opc # "fault"

-----------------------------------------------------------------------------
(* Directory iterators whose directory could not be opened *)

\* the iterators of the enumeration, root and nested, made with directory == 0
Unopened == { k \in 1..Len(dirs.frames) : dirs.frames[k].directory = NULL }

\* C19: a Directory iterator whose directory could not be opened, at the
\* root or nested, gives no names and is disposed without calling dispose on
\* the absent handle
C19_UnopenedDisposeSafe ==
  /\ ~(ipc = "crashed" /\ Unopened # {})
  /\ 1 \in Unopened => yielded = <<>>

-----------------------------------------------------------------------------
(* Records of one name *)

\* the last of a set of places in the central directory
Last(S) == CHOOSE i \in S : \A j \in S : j <= i

\* C20: of several records with one name, lookup resolves to the last in
\* central-directory order, at every size of the index and after any number
\* of growths, and find and exists answer from that record
C20_LastDuplicate ==
  LET names == [n \in 1..index.position |-> NodeName(Region, index, n)]
  IN  /\ \A n \in 1..index.position :
           LET f == findNode(Region, index, names[n])
           IN  /\ f # NULL
               /\ \A k \in 1..index.position :
                    names[k] = names[n] => index.nodes[k].entry <= index.nodes[f].entry
      /\ (opc = "returned" /\ res.op # "none" /\ EntriesNamed(aid, res.name) # {}) =>
           LET e == ArchiveEnts[aid][Last(EntriesNamed(aid, res.name))]
           IN  /\ res.b
               /\ res.op = "find" /\ e.method = Stored =>
                    RegionBytes(Region, res.r) = e.content

\* C20: find of the name records 3, 5 and 40 share, on the index that grew
\* twice, once after all three were inserted, gave the content of record 40
C20_Witness ==
  /\ opc = "returned"
  /\ index.capacity = 4 * InitialCapacity
  /\ res.op = "find"
  /\ res.name = BigName0(3)
  /\ EntriesNamed(aid, res.name) = {3, 5, 40}
  /\ RegionBytes(Region, res.r) = <<40>>

====
